---- MODULE Spec2Model ----
(***************************************************************************)
(* A model of the parser-combinator engine of monad_argparse.              *)
(*                                                                         *)
(* Two layers of the repository are modelled:                              *)
(*   - monad_argparse/parser.py: a Parser wraps a function from a token    *)
(*     list to a Python list of (value, remainder) pairs; the empty list   *)
(*     is failure.  Parsers are represented as syntax trees and `parse`    *)
(*     interprets them exactly as the closures of parser.py evaluate.      *)
(*   - monad_argparse/parser/result.py: the Result dataclass (a value or   *)
(*     an Exception) with its merge __add__, bind, return_ and zero.       *)
(***************************************************************************)
EXTENDS Integers, Sequences, FiniteSets, TLC

VARIABLES
    p,      \* first parser operand (a syntax tree)
    q,      \* second parser operand
    r,      \* third parser operand (chains of three)
    f,      \* name of the continuation handed to bind
    cs,     \* the token list the parser is run on
    op,     \* which operation has been applied ("init" before any)
    out,    \* the list of (value, remainder) results the operation returned
    calls,  \* how many times bind applied its continuation
    ra,     \* first Result operand
    rb,     \* second Result operand
    rc,     \* third Result operand
    rout,   \* the Result an operation on Results returned
    ps,     \* the parsers handed to nonpositional, or to interleave as positional
    tree    \* the dispatch tree of handlers

vars == <<p, q, r, f, cs, op, out, calls, ra, rb, rc, rout, ps, tree>>

(***************************************************************************)
(* Bounds.                                                                 *)
(***************************************************************************)
MaxLen == 3

\* Depth of nested many1 unfoldings after which the interpreter stops with
\* RecursionError; always larger than any depth a token-consuming repetition
\* needs on an input of MaxLen tokens.
RecursionLimit == MaxLen + 2

(***************************************************************************)
(* Python values.  Every value is a record of one shape so that any two    *)
(* values can be compared: t is the Python type, s a string payload,       *)
(* items the elements of a tuple or list.                                  *)
(***************************************************************************)
Str(s) == [t |-> "str", s |-> s, items |-> <<>>]

PyInt(n) == [t |-> "int", s |-> ToString(n), items |-> <<>>]

PyBool(b) == [t |-> "bool", s |-> IF b THEN "True" ELSE "False", items |-> <<>>]

Tup(a, b) == [t |-> "tuple", s |-> "", items |-> <<a, b>>]

Lst(xs) == [t |-> "list", s |-> "", items |-> xs]

\* An exception instance: its class and its message.
Exc(class, msg) == [t |-> class, s |-> msg, items |-> <<>>]

\* Python's list + list.
ListAdd(a, b) == Lst(a.items \o b.items)

(***************************************************************************)
(* Tokens and token lists.                                                 *)
(***************************************************************************)
Tokens == {"--verbose", "--num", "7"}

\* The tokens int() accepts, with the integer each converts to.
IntTokens == {"7", "1", "2", "3"}

IntOf(tok) ==
    CASE tok = "7" -> 7
      [] tok = "1" -> 1
      [] tok = "2" -> 2
      [] tok = "3" -> 3

TokenLists == UNION {[1..n -> Tokens] : n \in 0..MaxLen}

(***************************************************************************)
(* Result lists.  A parse returns a list of [val, rest] records.  A parse  *)
(* that raises instead of returning is the one-element list Raised(class). *)
(***************************************************************************)
Res(v, rest) == [val |-> v, rest |-> rest]

Raised(class) == <<Res(Exc(class, ""), <<>>)>>

ExceptionClasses == {"AssertionError", "RecursionError", "ValueError",
                     "ArgumentError", "MissingError", "UnequalError"}

IsRaised(xs) == Len(xs) = 1 /\ xs[1].val.t \in {"AssertionError", "RecursionError", "ValueError"}

RECURSIVE Flatten(_)
Flatten(ss) ==
    IF ss = <<>> THEN <<>>
    ELSE IF IsRaised(Head(ss)) THEN Head(ss)
    ELSE LET tl == Flatten(Tail(ss)) IN
         IF IsRaised(tl) THEN tl ELSE Head(ss) \o tl

(***************************************************************************)
(* Parser.__add__, __or__, bind, ret, zero.                                *)
(***************************************************************************)
\* self.parse(cs) + p.parse(cs): list concatenation of the two result lists.
ParserAdd(x, y) == IF IsRaised(x) THEN x ELSE IF IsRaised(y) THEN y ELSE x \o y

\* __or__.f: x = (self + p).parse(cs); return [x[0]] if x else [].
ParserOrLast(x) == IF x # <<>> THEN <<x[Len(x)]>> ELSE <<>>
ParserOrSeveral(x) == IF Len(x) > 1 THEN <<x[1]>> ELSE <<>>
ParserOrAll(x) == x
ParserOr(x) == IF x # <<>> THEN <<x[1]>> ELSE <<>>

\* bind.h: list(g(cs)), where g yields from f(a).parse(_cs) for each (a, _cs)
\* of p.parse(cs); ys is the sequence of those result lists, in order.
ParserBind(ys) == Flatten(ys)

\* ret.f: [(x, cs)].
ParserRetConsumesAll(x, tokens) == <<Res(x, <<>>)>>
ParserRet(x, tokens) == <<Res(x, tokens)>>

\* zero: the constant empty list.
ParserZero == <<>>

\* Monad.do, last step: the generator is exhausted and f returns cls.ret(y)
\* for the value y of the last yielded parser.
DoEnd(xs) ==
    IF IsRaised(xs) THEN xs
    ELSE ParserBind([i \in DOMAIN xs |-> ParserRet(xs[i].val, xs[i].rest)])

(***************************************************************************)
(* Primitive parsers.                                                      *)
(***************************************************************************)
\* Item.g: c, *cs = cs; ValueError (empty list) gives [].
ItemParse(tokens) ==
    IF tokens = <<>> THEN <<>>
    ELSE <<Res(Str(Head(tokens)), Tail(tokens))>>

\* Sat: c = yield Item(); yield ret(c) if predicate(c) else zero().
\* The predicate is the set of strings it accepts.
SatParse(pred, tokens) ==
    LET xs == ItemParse(tokens) IN
    ParserBind([i \in DOMAIN xs |->
        IF xs[i].val.s \in pred
        THEN DoEnd(ParserRet(xs[i].val, xs[i].rest))
        ELSE DoEnd(ParserZero)])

\* Flag.predicate / Option.predicate: x in [f"-{short}", f"--{long}"].
\* A short of None is formatted by the f-string as the text "None".
FlagPredicate(long, short) == {"-" \o short, "--" \o long}

\* dest or long: an absent (None) or empty dest falls back to long.
DestOr(dest, long) == IF dest = "" \/ dest = "None" THEN long ELSE dest

\* Flag.g: yield Sat(predicate); yield ret((dest or long, value)).
FlagParse(node, tokens) ==
    LET xs == SatParse(FlagPredicate(node.long, node.short), tokens) IN
    ParserBind([i \in DOMAIN xs |->
        DoEnd(ParserRet(Tup(Str(DestOr(node.dest, node.long)), node.value),
                        xs[i].rest))])

\* convert(c2) for the converters used: None (keep the string) and int.
\* int raises ValueError on a token that is not a number.
ConvertOk(convert, tok) == convert = "None" \/ tok \in IntTokens

Convert(convert, tok) == IF convert = "None" THEN Str(tok) ELSE PyInt(IntOf(tok))

\* Option.g: yield Sat(predicate); c2 = yield Item(); try ret((key, value))
\* except Exception: zero().
OptionParse(node, tokens) ==
    LET xs == SatParse(FlagPredicate(node.long, node.short), tokens) IN
    ParserBind([i \in DOMAIN xs |->
        LET ys == ItemParse(xs[i].rest) IN
        ParserBind([j \in DOMAIN ys |->
            IF ConvertOk(node.convert, ys[j].val.s)
            THEN DoEnd(ParserRet(Tup(Str(DestOr(node.dest, node.long)),
                                     Convert(node.convert, ys[j].val.s)),
                                 ys[j].rest))
            ELSE DoEnd(ParserZero)])])

\* Argument.g: c = yield Item(); yield ret((dest, c)).
ArgumentParseKeepsToken(node, tokens) ==
    LET xs == ItemParse(tokens) IN
    ParserBind([i \in DOMAIN xs |->
        DoEnd(ParserRet(Tup(Str(node.dest), xs[i].val), tokens))])
ArgumentParse(node, tokens) ==
    LET xs == ItemParse(tokens) IN
    ParserBind([i \in DOMAIN xs |->
        DoEnd(ParserRet(Tup(Str(node.dest), xs[i].val), xs[i].rest))])

(***************************************************************************)
(* Syntax trees of parsers.                                                *)
(***************************************************************************)
Ret(x) == [op |-> "ret", x |-> x]

Zero == [op |-> "zero"]

Item == [op |-> "item"]

Sat(pred) == [op |-> "sat", pred |-> pred]

Eq(s) == Sat({s})

Flag(long, short) ==
    [op |-> "flag", long |-> long, short |-> short, dest |-> "None",
     value |-> PyBool(TRUE)]

Option(long, short, convert) ==
    [op |-> "option", long |-> long, short |-> short, dest |-> "None",
     convert |-> convert]

Argument(dest) == [op |-> "argument", dest |-> dest]

Add(a, b) == [op |-> "add", l |-> a, r |-> b]

Or(a, b) == [op |-> "or", l |-> a, r |-> b]

Rshift(a, b) == [op |-> "rshift", l |-> a, r |-> b]

Bind(a, fn) == [op |-> "bind", l |-> a, fn |-> fn]

Many(a) == [op |-> "many", l |-> a]

Many1(a) == [op |-> "many1", l |-> a]

\* Parser.do(lambda: self.interleave(*positional)), as Parser.build makes it.
Interleave(a, positional) == [op |-> "interleave", l |-> a, ps |-> positional]

\* done(): the end marker; it succeeds, with no binding, only when no token
\* is left.
Done == [op |-> "done"]

\* Parser.empty(): ret of the empty sequence of bindings.
Empty == Ret(Lst(<<>>))

\* A node of the dispatch tree: the name of its handler ("" when it has
\* none), its own parser fragment and its children in declaration order.
Node(handler, fragment, children) ==
    [handler |-> handler, fragment |-> fragment, children |-> children]

NoTree == Node("", Zero, <<>>)

(***************************************************************************)
(* Continuations handed to bind: functions from a value to a Parser.       *)
(***************************************************************************)
Continuations == {"ret", "item", "eq", "zero", "rettwice"}

ApplyF(fn, a) ==
    CASE fn = "ret" -> Ret(a)
      [] fn = "item" -> Item
      [] fn = "eq" -> Eq(a.s)
      [] fn = "zero" -> Zero
      [] fn = "rettwice" -> Add(Ret(a), Ret(Lst(<<a>>)))

\* __rshift__.g: x1 = yield self; x2 = yield p; yield ret([x1] + [x2]).
RshiftValue(x1, x2) == ListAdd(Lst(<<x1>>), Lst(<<x2>>))

\* many1.g: yield ret([a] + aa).
Many1Value(a, aa) == ListAdd(Lst(<<a>>), aa)

\* bind.g: f1.parse(_cs) runs the continuation's parser on the remainder
\* _cs of the result, not on the tokens cs that bind was given.
BindInputSame(result, tokens) == tokens
BindInput(result, tokens) == result.rest

\* interleave: l1 = xs + [x] and yield Parser.ret(l1 + l2).
InterleaveValueFixedFirst(xs, x, l2) == ListAdd(ListAdd(Lst(<<x>>), xs), l2)
InterleaveValue(xs, x, l2) == ListAdd(ListAdd(xs, Lst(<<x>>)), l2)

\* interleave, no positional parser left: l1 = xs and yield Parser.ret(l1 + l2).
InterleaveLast(xs, l2) == ListAdd(xs, l2)

\* done().parse: [([], cs)] on the empty token list, failure otherwise.
DoneParse(tokens) == IF tokens = <<>> THEN ParserRet(Lst(<<>>), tokens) ELSE ParserZero

\* bind.g: one application of f per result of p.parse(cs).
BindCalls(xs) == IF IsRaised(xs) THEN 0 ELSE Len(xs)

(***************************************************************************)
(* Parser.parse: the interpreter.  n is the recursion depth left.          *)
(***************************************************************************)
RECURSIVE parse(_, _, _)
parse(node, tokens, n) ==
    CASE node.op = "ret" -> ParserRet(node.x, tokens)
      [] node.op = "zero" -> ParserZero
      [] node.op = "item" -> ItemParse(tokens)
      [] node.op = "sat" -> SatParse(node.pred, tokens)
      [] node.op = "flag" -> FlagParse(node, tokens)
      [] node.op = "option" -> OptionParse(node, tokens)
      [] node.op = "argument" -> ArgumentParse(node, tokens)
      [] node.op = "add" ->
            ParserAdd(parse(node.l, tokens, n), parse(node.r, tokens, n))
      [] node.op = "or" ->
            LET x == ParserAdd(parse(node.l, tokens, n), parse(node.r, tokens, n)) IN
            IF IsRaised(x) THEN x ELSE ParserOr(x)
      [] node.op = "bind" ->
            LET xs == parse(node.l, tokens, n) IN
            IF IsRaised(xs) THEN xs
            ELSE ParserBind([i \in DOMAIN xs |->
                    parse(ApplyF(node.fn, xs[i].val), BindInput(xs[i], tokens), n)])
      [] node.op = "rshift" ->
            LET xs == parse(node.l, tokens, n) IN
            IF IsRaised(xs) THEN xs
            ELSE ParserBind([i \in DOMAIN xs |->
                    LET ys == parse(node.r, BindInput(xs[i], tokens), n) IN
                    IF IsRaised(ys) THEN ys
                    ELSE ParserBind([j \in DOMAIN ys |->
                            DoEnd(ParserRet(RshiftValue(xs[i].val, ys[j].val),
                                            ys[j].rest))])])
      [] node.op = "done" -> DoneParse(tokens)
      [] node.op = "interleave" ->
            LET xss == parse(Many(node.l), tokens, n) IN
            IF IsRaised(xss) THEN xss
            ELSE ParserBind([i \in DOMAIN xss |->
                IF node.ps = <<>>
                THEN \* head, *tail = positional raises ValueError
                    LET l2s == parse(Many(node.l), BindInput(xss[i], tokens), n) IN
                    IF IsRaised(l2s) THEN l2s
                    ELSE ParserBind([k \in DOMAIN l2s |->
                            DoEnd(ParserRet(InterleaveLast(xss[i].val, l2s[k].val),
                                            l2s[k].rest))])
                ELSE
                    LET xs == parse(Head(node.ps), BindInput(xss[i], tokens), n) IN
                    IF IsRaised(xs) THEN xs
                    ELSE ParserBind([j \in DOMAIN xs |->
                        LET l2s == parse(Interleave(node.l, Tail(node.ps)),
                                         BindInput(xs[j], tokens), n) IN
                        IF IsRaised(l2s) THEN l2s
                        ELSE ParserBind([k \in DOMAIN l2s |->
                                DoEnd(ParserRet(InterleaveValue(xss[i].val, xs[j].val,
                                                                l2s[k].val),
                                                l2s[k].rest))])])])
      [] node.op = "many" ->
            LET x == ParserAdd(parse(Many1(node.l), tokens, n),
                               ParserRet(Lst(<<>>), tokens)) IN
            IF IsRaised(x) THEN x ELSE ParserOr(x)
      [] node.op = "many1" ->
            IF n = 0 THEN Raised("RecursionError")
            ELSE
            LET xs == parse(node.l, tokens, n) IN
            IF IsRaised(xs) THEN xs
            ELSE ParserBind([i \in DOMAIN xs |->
                    IF xs[i].val.t # "tuple" THEN Raised("AssertionError")
                    ELSE
                    LET ys == parse(Many(node.l), BindInput(xs[i], tokens), n - 1) IN
                    IF IsRaised(ys) THEN ys
                    ELSE ParserBind([j \in DOMAIN ys |->
                            IF ys[j].val.t # "list" THEN Raised("AssertionError")
                            ELSE DoEnd(ParserRet(Many1Value(xs[i].val, ys[j].val),
                                                 ys[j].rest))])])

Run(node, tokens) == parse(node, tokens, RecursionLimit)

\* Parser.parse_args: (a, _), *_ = parsed; return a.  Unpacking the empty
\* list raises ValueError.  The value returned is given as a result with no
\* remainder.
parse_args(node, tokens) ==
    LET parsed == Run(node, tokens) IN
    IF IsRaised(parsed) THEN parsed
    ELSE IF parsed = <<>> THEN Raised("ValueError")
    ELSE <<Res(parsed[1].val, <<>>)>>

Succeeds(xs) == xs # <<>> /\ ~IsRaised(xs)

Fails(xs) == xs = <<>>

(***************************************************************************)
(* monad_argparse/parser/result.py: Result holds a value or an Exception.  *)
(***************************************************************************)
Result(x) == [get |-> x]

\* isinstance(x, Exception)
IsException(x) == x.t \in ExceptionClasses

MissingError(missing) == Exc("MissingError", missing)

UnequalError(left, right) ==
    [t |-> "UnequalError", s |-> "", items |-> <<Str(left), Str(right)>>]

\* Result.__add__: the first operand unless only the second is a success.
ResultAddKeepLeft(a, b) == a
ResultAddSameClass(a, b) ==
    IF ~IsException(a.get) THEN a
    ELSE IF ~IsException(b.get) THEN b
    ELSE IF a.get.t = b.get.t THEN a ELSE b
ResultAddLastError(a, b) == IF ~IsException(a.get) THEN a ELSE b
ResultAdd(a, b) ==
    IF ~IsException(a.get) THEN a
    ELSE IF ~IsException(b.get) THEN b
    ELSE a

\* Monoid.__or__: self + other.
MonoidOr(a, b) == ResultAdd(a, b)

\* Result.zero: Result(ArgumentError(description="zero")).
ResultZero == Result(Exc("ArgumentError", "zero"))

\* Result.return_
ResultReturn(a) == Result(a)

\* Continuations handed to Result.bind: functions from a value to a Result.
ResultContinuations == {"ret", "zero", "missing"}

ResultApplyF(fn, y) ==
    CASE fn = "ret" -> ResultReturn(y)
      [] fn = "zero" -> ResultZero
      [] fn = "missing" -> Result(MissingError("--num"))

\* Result.bind: an Exception is handed on in a new Result, else f(y).
ResultBindLosesError(x, fn) ==
    IF IsException(x.get) THEN ResultZero ELSE ResultApplyF(fn, x.get)
ResultBind(x, fn) ==
    LET y == x.get IN
    IF IsException(y) THEN Result(y) ELSE ResultApplyF(fn, y)

(***************************************************************************)
(* The parsers, token lists and Results the operations are applied to.     *)
(***************************************************************************)
FlagVerbose == Flag("verbose", "v")

OptionNum == Option("num", "n", "int")

ArgumentA == Argument("a")

KeyValueParsers == {FlagVerbose, OptionNum, ArgumentA}

Atoms == KeyValueParsers \cup {Ret(PyInt(1)), Ret(PyInt(2)), Zero, Item, Eq("7")}

Parsers ==
    Atoms \cup
    { Add(Ret(PyInt(1)), Ret(PyInt(2))),
      Or(FlagVerbose, Ret(PyInt(1))),
      Rshift(FlagVerbose, ArgumentA),
      Many(FlagVerbose),
      Many1(OptionNum) }

KV(key, v) == Lst(<<Tup(Str(key), v)>>)

Results ==
    { Result(KV("verbose", PyBool(TRUE))),
      Result(KV("num", PyInt(7))),
      ResultZero,
      Result(MissingError("--verbose")),
      Result(MissingError("--num")),
      Result(UnequalError("--verbose", "--num")) }

InitParsers ==
    /\ p \in Parsers
    /\ q \in Parsers
    /\ r = Zero
    /\ f = "ret"
    /\ cs \in TokenLists
    /\ op = "init"
    /\ out = <<>>
    /\ calls = 0
    /\ tree = NoTree
    /\ ps = <<>>
    /\ ra = ResultZero /\ rb = ResultZero /\ rc = ResultZero /\ rout = ResultZero

InitResults ==
    /\ p = Zero /\ q = Zero /\ r = Zero /\ f = "ret" /\ cs = <<>>
    /\ op = "rinit"
    /\ out = <<>>
    /\ calls = 0
    /\ tree = NoTree
    /\ ps = <<>>
    /\ ra \in Results
    /\ rb \in Results
    /\ rc \in Results
    /\ rout = ResultZero

operands == <<p, q, r, f, cs, ra, rb, rc, ps, tree>>

(***************************************************************************)
(* Alternation: Parser.__or__ on parsers, Monoid.__or__ on Results.        *)
(***************************************************************************)
OrPQ ==
    /\ op = "init"
    /\ op' = "p|q"
    /\ out' = Run(Or(p, q), cs)
    /\ UNCHANGED <<operands, calls, rout>>

OrQP ==
    /\ op = "init"
    /\ op' = "q|p"
    /\ out' = Run(Or(q, p), cs)
    /\ UNCHANGED <<operands, calls, rout>>

OrPZero ==
    /\ op = "init"
    /\ op' = "p|zero"
    /\ out' = Run(Or(p, Zero), cs)
    /\ UNCHANGED <<operands, calls, rout>>

OrZeroP ==
    /\ op = "init"
    /\ op' = "zero|p"
    /\ out' = Run(Or(Zero, p), cs)
    /\ UNCHANGED <<operands, calls, rout>>

RunZero ==
    /\ op = "init"
    /\ op' = "zero"
    /\ out' = Run(Zero, cs)
    /\ UNCHANGED <<operands, calls, rout>>

MergeAB ==
    /\ op = "rinit"
    /\ op' = "a|b"
    /\ rout' = MonoidOr(ra, rb)
    /\ UNCHANGED <<operands, calls, out>>

MergeBA ==
    /\ op = "rinit"
    /\ op' = "b|a"
    /\ rout' = MonoidOr(rb, ra)
    /\ UNCHANGED <<operands, calls, out>>

MergeAZero ==
    /\ op = "rinit"
    /\ op' = "a|zero"
    /\ rout' = MonoidOr(ra, ResultZero)
    /\ UNCHANGED <<operands, calls, out>>

MergeZeroA ==
    /\ op = "rinit"
    /\ op' = "zero|a"
    /\ rout' = MonoidOr(ResultZero, ra)
    /\ UNCHANGED <<operands, calls, out>>

MergeLeftFirst ==
    /\ op = "rinit"
    /\ op' = "(a|b)|c"
    /\ rout' = MonoidOr(MonoidOr(ra, rb), rc)
    /\ UNCHANGED <<operands, calls, out>>

MergeRightFirst ==
    /\ op = "rinit"
    /\ op' = "a|(b|c)"
    /\ rout' = MonoidOr(ra, MonoidOr(rb, rc))
    /\ UNCHANGED <<operands, calls, out>>

InitAlt == InitParsers \/ InitResults

NextAlt ==
    \/ OrPQ \/ OrQP \/ OrPZero \/ OrZeroP \/ RunZero
    \/ MergeAB \/ MergeBA \/ MergeAZero \/ MergeZeroA
    \/ MergeLeftFirst \/ MergeRightFirst

SpecAlt == InitAlt /\ [][NextAlt]_vars

IsSuccess(x) == ~IsException(x.get)

\* C1: left-biased alternation.  When p and q both succeed on cs, p | q
\* returns p's (first) result, value and remainder, and nothing of q's;
\* merging two successful Results returns the left one.
C1_LeftBiased ==
    /\ (op = "p|q" /\ Succeeds(Run(p, cs)) /\ Succeeds(Run(q, cs)))
            => out = <<Run(p, cs)[1]>>
    /\ (op = "a|b" /\ IsSuccess(ra) /\ IsSuccess(rb)) => rout = ra

\* ret(1) | ret(2) has been run: both sides succeed, with different values.
C1_Witness ==
    /\ op = "p|q"
    /\ p = Ret(PyInt(1)) /\ q = Ret(PyInt(2))
    /\ Succeeds(Run(p, cs)) /\ Succeeds(Run(q, cs))
    /\ Run(p, cs)[1] # Run(q, cs)[1]
    /\ out = <<Res(PyInt(1), cs)>>

\* C2: a success wins over a failure on either side.  When exactly one of
\* p, q succeeds on cs, p | q and q | p both return that parser's (first)
\* result; merging a success with a failure returns the success in either
\* order.
C2_SuccessWins ==
    /\ (op \in {"p|q", "q|p"} /\ Succeeds(Run(p, cs)) /\ Fails(Run(q, cs)))
            => out = <<Run(p, cs)[1]>>
    /\ (op \in {"p|q", "q|p"} /\ Fails(Run(p, cs)) /\ Succeeds(Run(q, cs)))
            => out = <<Run(q, cs)[1]>>
    /\ (op \in {"a|b", "b|a"} /\ IsSuccess(ra) /\ ~IsSuccess(rb)) => rout = ra
    /\ (op \in {"a|b", "b|a"} /\ ~IsSuccess(ra) /\ IsSuccess(rb)) => rout = rb

\* The failing parser is on the left and the successful one on the right.
C2_Witness ==
    /\ op = "p|q"
    /\ p = FlagVerbose /\ q = OptionNum
    /\ Fails(Run(p, cs)) /\ Succeeds(Run(q, cs))
    /\ out = <<Res(Tup(Str("num"), PyInt(7)), <<>>)>>

\* C3: zero() is a two-sided identity of alternation.  zero() fails on every
\* token list; p | zero() and zero() | p return what p alone returns; and
\* merging an outcome with the zero outcome on either side returns that
\* outcome, the same value when it is a success and the same error when it
\* is a failure.
C3_ZeroIdentity ==
    /\ op = "zero" => Fails(out)
    /\ (op \in {"p|zero", "zero|p"} /\ Len(Run(p, cs)) <= 1) => out = Run(p, cs)
    /\ op \in {"a|zero", "zero|a"} => rout = ra

(***************************************************************************)
(* Sequencing: Parser.__rshift__ and Parser.bind, Result.bind.             *)
(***************************************************************************)
ThirdParsers == {ArgumentA, Ret(PyInt(1)), Zero}

InitChain ==
    /\ p \in Parsers
    /\ q \in Parsers
    /\ r \in ThirdParsers
    /\ f = "ret"
    /\ cs \in TokenLists
    /\ op = "init"
    /\ out = <<>>
    /\ calls = 0
    /\ tree = NoTree
    /\ ps = <<>>
    /\ ra = ResultZero /\ rb = ResultZero /\ rc = ResultZero /\ rout = ResultZero

InitBind ==
    /\ p \in Parsers
    /\ q = Zero /\ r = Zero
    /\ f \in Continuations
    /\ cs \in TokenLists
    /\ op = "init"
    /\ out = <<>>
    /\ calls = 0
    /\ tree = NoTree
    /\ ps = <<>>
    /\ ra = ResultZero /\ rb = ResultZero /\ rc = ResultZero /\ rout = ResultZero

InitResultBind ==
    /\ p = Zero /\ q = Zero /\ r = Zero /\ cs = <<>>
    /\ f \in ResultContinuations
    /\ op = "rinit"
    /\ out = <<>>
    /\ calls = 0
    /\ tree = NoTree
    /\ ps = <<>>
    /\ ra \in Results
    /\ rb = ResultZero /\ rc = ResultZero /\ rout = ResultZero

RshiftPQ ==
    /\ op = "init"
    /\ op' = "p>>q"
    /\ out' = Run(Rshift(p, q), cs)
    /\ calls' = BindCalls(Run(p, cs))
    /\ UNCHANGED <<operands, rout>>

RshiftPRet ==
    /\ op = "init"
    /\ op' = "p>>ret"
    /\ out' = Run(Rshift(p, Ret(Lst(<<>>))), cs)
    /\ calls' = BindCalls(Run(p, cs))
    /\ UNCHANGED <<operands, rout>>

RshiftPQR ==
    /\ op = "init"
    /\ op' = "p>>q>>r"
    /\ out' = Run(Rshift(Rshift(p, q), r), cs)
    /\ calls' = BindCalls(Run(Rshift(p, q), cs))
    /\ UNCHANGED <<operands, rout>>

BindPF ==
    /\ op = "init"
    /\ f \in Continuations
    /\ op' = "bind"
    /\ out' = Run(Bind(p, f), cs)
    /\ calls' = BindCalls(Run(p, cs))
    /\ UNCHANGED <<operands, rout>>

ResultBindAF ==
    /\ op = "rinit"
    /\ op' = "rbind"
    /\ rout' = ResultBind(ra, f)
    /\ calls' = IF IsException(ra.get) THEN 0 ELSE 1
    /\ UNCHANGED <<operands, out>>

InitSeq == InitChain \/ InitBind \/ InitResultBind

NextSeq == RshiftPQ \/ RshiftPRet \/ RshiftPQR \/ BindPF \/ ResultBindAF

SpecSeq == InitSeq /\ [][NextSeq]_vars

\* C4: ret(empty) is a right identity of sequencing: p >> ret([]) returns on
\* every token list what p alone returns, the same value and remainder when
\* p succeeds and the same failure when p fails.
C4_RetRightIdentity ==
    (op = "p>>ret" /\ p \in KeyValueParsers) => out = Run(p, cs)

\* C5: bind(p, f) on cs.  When p fails the result is p's failure and f is
\* not applied; when p succeeds with (a, rest) the result is what the parser
\* f(a) returns on rest.  Result.bind hands an Exception on unchanged without
\* applying f, and returns f(y) for a value y.
C5_Bind ==
    /\ (op = "bind" /\ Fails(Run(p, cs))) => (out = Run(p, cs) /\ calls = 0)
    /\ (op = "bind" /\ Len(Run(p, cs)) = 1) =>
            /\ out = Run(ApplyF(f, Run(p, cs)[1].val), Run(p, cs)[1].rest)
            /\ calls = 1
    /\ (op = "rbind" /\ IsException(ra.get)) => (rout = ra /\ calls = 0)
    /\ (op = "rbind" /\ IsSuccess(ra)) => rout = ResultApplyF(f, ra.get)

\* bind(Item(), lambda a: Item()) has consumed two tokens: the continuation's
\* parser ran on the remainder, where it returns something else than on cs.
C5_Witness ==
    /\ op = "bind"
    /\ p = Item /\ f = "item"
    /\ cs = <<"7", "--num">>
    /\ out = <<Res(Str("--num"), <<>>)>>
    /\ out # Run(ApplyF(f, Str("7")), cs)

\* C6: when p succeeds on cs with (x, r1) and q succeeds on r1 with (y, r2),
\* p >> q succeeds with the flat concatenation of x's and y's bindings and
\* remainder r2; p >> q >> r yields the bindings of all three as one flat
\* sequence.  (The bindings of a value are the elements of a list, or the
\* one binding a key-value tuple is.)
C6_FlatSequence ==
    LET Bindings(x) == IF x.t = "list" THEN x.items ELSE <<x>> IN
    /\ (op = "p>>q" /\ {p, q} \subseteq KeyValueParsers /\ Len(Run(p, cs)) = 1) =>
            LET x == Run(p, cs)[1]
                ys == Run(q, x.rest) IN
            Len(ys) = 1 =>
                out = <<Res(Lst(Bindings(x.val) \o Bindings(ys[1].val)), ys[1].rest)>>
    /\ (op = "p>>q>>r" /\ {p, q, r} \subseteq KeyValueParsers
            /\ Len(Run(p, cs)) = 1) =>
            LET x == Run(p, cs)[1]
                ys == Run(q, x.rest) IN
            Len(ys) = 1 =>
                LET zs == Run(r, ys[1].rest) IN
                Len(zs) = 1 =>
                    out = <<Res(Lst(Bindings(x.val) \o Bindings(ys[1].val)
                                    \o Bindings(zs[1].val)), zs[1].rest)>>

RepeatableParsers ==
    KeyValueParsers \cup {Or(FlagVerbose, OptionNum), Or(OptionNum, ArgumentA)}

InitMany ==
    /\ p \in RepeatableParsers
    /\ q = Zero /\ r = Zero /\ f = "ret"
    /\ cs \in TokenLists
    /\ op = "init"
    /\ out = <<>>
    /\ calls = 0
    /\ tree = NoTree
    /\ ps = <<>>
    /\ ra = ResultZero /\ rb = ResultZero /\ rc = ResultZero /\ rout = ResultZero

ManyP ==
    /\ op = "init"
    /\ op' = "many"
    /\ out' = Run(Many(p), cs)
    /\ UNCHANGED <<operands, calls, rout>>

Many1P ==
    /\ op = "init"
    /\ op' = "many1"
    /\ out' = Run(Many1(p), cs)
    /\ UNCHANGED <<operands, calls, rout>>

\* p.many() >> p: the repetition followed by one more p.
ManyThenP ==
    /\ op = "init"
    /\ op' = "many>>p"
    /\ out' = Run(Rshift(Many(p), p), cs)
    /\ UNCHANGED <<operands, calls, rout>>

\* p.many() >> Item(): the repetition followed by a parser of any token.
ManyThenItem ==
    /\ op = "init"
    /\ op' = "many>>item"
    /\ out' = Run(Rshift(Many(p), Item), cs)
    /\ UNCHANGED <<operands, calls, rout>>

NextMany == ManyP \/ Many1P \/ ManyThenP \/ ManyThenItem

SpecMany == InitMany /\ [][NextMany]_vars

\* C8: many(p) succeeds on every token list, the empty list and the lists
\* whose first token p rejects included; when p matches zero times the value
\* is the empty list of bindings and the remainder is the whole input.
C8_ManyTotal ==
    op = "many" =>
        /\ Succeeds(out)
        /\ Len(out) = 1
        /\ Fails(Run(p, cs)) => out = <<Res(Lst(<<>>), cs)>>

\* many(p) has run on a non-empty list whose first token p rejects.
C8_Witness ==
    /\ op = "many"
    /\ p = FlagVerbose
    /\ cs = <<"7", "--verbose">>
    /\ Fails(Run(p, cs))
    /\ out = <<Res(Lst(<<>>), cs)>>

C10_MergeAssociative ==
    /\ op = "(a|b)|c" => rout = MonoidOr(ra, MonoidOr(rb, rc))
    /\ op = "a|(b|c)" => rout = MonoidOr(MonoidOr(ra, rb), rc)

\* Three different errors have been merged; the result is the first.
C10_Witness ==
    /\ op = "(a|b)|c"
    /\ ra = Result(MissingError("--verbose"))
    /\ rb = Result(UnequalError("--verbose", "--num"))
    /\ rc = Result(MissingError("--num"))
    /\ rout = ra

\* C11: when every alternative fails, the failure of a chain of | does not
\* depend on the order of the alternatives: a | b and b | a yield the same
\* error for all failing outcomes a and b, and so does a chain of three
\* taken in the opposite order.
C11_FailureOrderIndependent ==
    /\ (op = "a|b" /\ ~IsSuccess(ra) /\ ~IsSuccess(rb)) => rout = MonoidOr(rb, ra)
    /\ (op = "(a|b)|c" /\ ~IsSuccess(ra) /\ ~IsSuccess(rb) /\ ~IsSuccess(rc))
            => rout = MonoidOr(MonoidOr(rc, rb), ra)

\* C12: when a token-mismatch error (UnequalError) and a missing-argument
\* error (MissingError) are merged, the merged failure is the token
\* mismatch, whichever side of | it came from.
C12_TokenMismatchPreferred ==
    (op \in {"a|b", "b|a"}
        /\ {ra.get.t, rb.get.t} = {"MissingError", "UnequalError"})
            => rout.get.t = "UnequalError"

(***************************************************************************)
(* Surface parsers: Argument, Flag and Option run on their own, and        *)
(* optional(p).                                                            *)
(***************************************************************************)
\* Tokens that tell the spellings of a flag apart: the short spelling -v and
\* the text an absent short form is formatted to.
SurfaceTokens == Tokens \cup {"-v", "-None"}

SurfaceTokenLists == UNION {[1..n -> SurfaceTokens] : n \in 0..MaxLen}

\* Flag("verbose"): short is left at its default None.
FlagVerboseLong == Flag("verbose", "None")

\* Option("num"): no short form and no converter.
OptionNumLong == Option("num", "None", "None")

SurfaceParsers == {ArgumentA, FlagVerbose, FlagVerboseLong, OptionNum, OptionNumLong}

\* optional(p): p | ret(empty).
optional(a) == Or(a, Ret(Lst(<<>>)))

InitSurface ==
    /\ p \in SurfaceParsers
    /\ q = Zero /\ r = Zero /\ f = "ret"
    /\ cs \in SurfaceTokenLists
    /\ op = "init"
    /\ out = <<>>
    /\ calls = 0
    /\ tree = NoTree
    /\ ps = <<>>
    /\ ra = ResultZero /\ rb = ResultZero /\ rc = ResultZero /\ rout = ResultZero

ParseP ==
    /\ op = "init"
    /\ op' = "parse"
    /\ out' = Run(p, cs)
    /\ UNCHANGED <<operands, calls, rout>>

OptionalP ==
    /\ op = "init"
    /\ op' = "optional"
    /\ out' = Run(optional(p), cs)
    /\ UNCHANGED <<operands, calls, rout>>

ParseArgsP ==
    /\ op = "init"
    /\ op' = "parse_args"
    /\ out' = parse_args(p, cs)
    /\ UNCHANGED <<operands, calls, rout>>

NextSurface == ParseP \/ OptionalP \/ ParseArgsP

SpecSurface == InitSurface /\ [][NextSurface]_vars

\* C13: Argument(key) with no converter succeeds on every non-empty token
\* list, whatever the first token is, binding key to that first token and
\* leaving exactly the tail as remainder; it fails only on the empty list.
C13_ArgumentAnyToken ==
    (op = "parse" /\ p.op = "argument") =>
        /\ cs # <<>> => out = <<Res(Tup(Str(p.dest), Str(Head(cs))), Tail(cs))>>
        /\ cs = <<>> => Fails(out)

\* Argument("a") has taken a flag-like first token.
C13_Witness ==
    /\ op = "parse"
    /\ p = ArgumentA
    /\ cs = <<"--verbose", "7">>
    /\ out = <<Res(Tup(Str("a"), Str("--verbose")), <<"7">>)>>

\* C14: Flag(name) succeeds on a token list if and only if the list is not
\* empty and its first token is a spelling of the flag: -short or --long when
\* a short form is given, only --long when none is; on success it binds name
\* to true and consumes that one token; otherwise it fails.
C14_FlagSpelling ==
    (op = "parse" /\ p.op = "flag") =>
        LET spellings == IF p.short = "None" THEN {"--" \o p.long}
                         ELSE {"-" \o p.short, "--" \o p.long}
            matches == cs # <<>> /\ Head(cs) \in spellings IN
        /\ Succeeds(out) <=> matches
        /\ matches => out = <<Res(Tup(Str(p.long), PyBool(TRUE)), Tail(cs))>>
        /\ ~matches => Fails(out)

\* C15: Option(name, convert) matches the flag spelling, consumes the token
\* that follows and binds name to its converted value, two tokens consumed;
\* when the converter rejects that token the outcome is one failure value,
\* a ConversionFailed naming the option and the raw token, not an exception
\* and not the empty failure.
C15_OptionConversion ==
    (op = "parse" /\ p.op = "option" /\ Len(cs) >= 2
        /\ cs[1] \in FlagPredicate(p.long, p.short)) =>
        /\ ConvertOk(p.convert, cs[2]) =>
                out = <<Res(Tup(Str(p.long), Convert(p.convert, cs[2])),
                            Tail(Tail(cs)))>>
        /\ ~ConvertOk(p.convert, cs[2]) =>
                /\ ~IsRaised(out)
                /\ Len(out) = 1
                /\ out[1].val = [t |-> "ConversionFailed", s |-> "",
                                 items |-> <<Str(p.long), Str(cs[2])>>]

\* C19: optional(p) always succeeds; when p fails it succeeds consuming
\* nothing, and its value is the empty list of bindings: no binding for p's
\* key, with a placeholder or without; when p succeeds it is p's outcome.
C19_OptionalOmitsKey ==
    op = "optional" =>
        /\ Succeeds(out)
        /\ Fails(Run(p, cs)) => out = <<Res(Lst(<<>>), cs)>>
        /\ Succeeds(Run(p, cs)) => out = <<Run(p, cs)[1]>>

\* optional(Option("num", "n", convert=int)) on a list where the option does
\* not match: nothing bound, nothing consumed.
C19_Witness ==
    /\ op = "optional"
    /\ p = OptionNum
    /\ cs = <<"--verbose", "7">>
    /\ Fails(Run(p, cs))
    /\ out = <<Res(Lst(<<>>), cs)>>
    /\ out[1].val.items = <<>>

(***************************************************************************)
(* Composite parsers: nonpositional and interleave.                        *)
(***************************************************************************)
\* tail = [p for j, p in enumerate(parsers) if j != i]
Remove(parsers, i) == SubSeq(parsers, 1, i - 1) \o SubSeq(parsers, i + 1, Len(parsers))

\* reduce(lambda p1, p2: p1 | p2, alternatives): a fold from the left.
RECURSIVE ReduceOr(_)
ReduceOr(alts) ==
    IF Len(alts) = 1 THEN alts[1]
    ELSE Or(ReduceOr(SubSeq(alts, 1, Len(alts) - 1)), alts[Len(alts)])

\* nonpositional(*parsers): empty() for no parser, else the alternatives
\* head >> nonpositional(*tail) >> done(), one per head, joined by |.
RECURSIVE nonpositionalFirstOnly(_)
nonpositionalFirstOnly(parsers) ==
    IF parsers = <<>> THEN Empty
    ELSE Rshift(Rshift(parsers[1], nonpositionalFirstOnly(Remove(parsers, 1))), Done)
RECURSIVE nonpositionalNoDone(_)
nonpositionalNoDone(parsers) ==
    IF parsers = <<>> THEN Empty
    ELSE ReduceOr([i \in DOMAIN parsers |->
            Rshift(parsers[i], nonpositionalNoDone(Remove(parsers, i)))])
RECURSIVE nonpositional(_)
nonpositional(parsers) ==
    IF parsers = <<>> THEN Empty
    ELSE ReduceOr([i \in DOMAIN parsers |->
            Rshift(Rshift(parsers[i], nonpositional(Remove(parsers, i))), Done)])

FlagDebug == Flag("debug", "d")

ArgumentB == Argument("b")

CompositeTokens == Tokens \cup {"--debug"}

\* Long enough for the tokens of three flags and options in any order.
CompositeTokenLists == UNION {[1..n -> CompositeTokens] : n \in 0..(MaxLen + 1)}

\* The sequences of distinct elements of a set.
Distinct(S) ==
    {xs \in UNION {[1..n -> S] : n \in 0..Cardinality(S)} :
        \A i, j \in DOMAIN xs : xs[i] = xs[j] => i = j}

\* Required flags and options handed to nonpositional, in every order.
RequiredParserLists == Distinct({FlagVerbose, FlagDebug, OptionNum})

\* The repeatable parser of interleave and its positional parsers.
InterleaveRepeatable == {FlagVerbose, Or(FlagVerbose, OptionNum)}

PositionalLists == {<<>>, <<ArgumentA>>, <<ArgumentA, ArgumentB>>, <<FlagDebug, ArgumentA>>}

InitNonpositional ==
    /\ p = Zero /\ q = Zero /\ r = Zero /\ f = "ret"
    /\ ps \in RequiredParserLists
    /\ cs \in CompositeTokenLists
    /\ op = "ninit"
    /\ out = <<>>
    /\ calls = 0
    /\ tree = NoTree
    /\ ra = ResultZero /\ rb = ResultZero /\ rc = ResultZero /\ rout = ResultZero

InitInterleave ==
    /\ p \in InterleaveRepeatable
    /\ q = Zero /\ r = Zero /\ f = "ret"
    /\ ps \in PositionalLists
    /\ cs \in CompositeTokenLists
    /\ op = "init"
    /\ out = <<>>
    /\ calls = 0
    /\ tree = NoTree
    /\ ra = ResultZero /\ rb = ResultZero /\ rc = ResultZero /\ rout = ResultZero

NonpositionalPs ==
    /\ op = "ninit"
    /\ op' = "nonpositional"
    /\ out' = Run(nonpositional(ps), cs)
    /\ UNCHANGED <<operands, calls, rout>>

InterleavePs ==
    /\ op = "init"
    /\ op' = "interleave"
    /\ out' = Run(Interleave(p, ps), cs)
    /\ UNCHANGED <<operands, calls, rout>>

InitComposite == InitNonpositional \/ InitInterleave

NextComposite == NonpositionalPs \/ InterleavePs

SpecComposite == InitComposite /\ [][NextComposite]_vars

\* What a claim about nonpositional speaks of: the tokens a required flag or
\* option is written with, the binding it then returns, the orders the
\* parsers can be written in, and the bindings of a value read from left to
\* right.
TokensOf(node) ==
    IF node.op = "flag" THEN <<"--" \o node.long>> ELSE <<"--" \o node.long, "7">>

BindingOf(node) ==
    IF node.op = "flag" THEN Tup(Str(node.long), PyBool(TRUE))
    ELSE Tup(Str(node.long), PyInt(7))

Orders(n) == {s \in [1..n -> 1..n] : \A i, j \in 1..n : s[i] = s[j] => i = j}

RECURSIVE ConcatAll(_)
ConcatAll(ss) == IF ss = <<>> THEN <<>> ELSE Head(ss) \o ConcatAll(Tail(ss))

RECURSIVE Leaves(_)
Leaves(v) ==
    IF v.t # "list" THEN <<v>>
    ELSE IF v.items = <<>> THEN <<>>
    ELSE Leaves(Head(v.items)) \o Leaves(Lst(Tail(v.items)))

\* The token lists that write each parser of ps once, in the order s.
InOrder(s) == ConcatAll([i \in DOMAIN ps |-> TokensOf(ps[s[i]])])

C17_NonpositionalExact ==
    op = "nonpositional" =>
        /\ ps # <<>> =>
                /\ Succeeds(out) <=> \E s \in Orders(Len(ps)) : cs = InOrder(s)
                /\ Succeeds(out) => out[1].rest = <<>>
                /\ ~Succeeds(out) => Fails(out)
        /\ ps = <<>> => out = <<Res(Lst(<<>>), cs)>>

\* Both flags are matched and one more token follows: failure.
C17_Witness ==
    /\ op = "nonpositional"
    /\ ps = <<FlagVerbose, FlagDebug>>
    /\ cs = <<"--debug", "--verbose", "--verbose">>
    /\ Fails(out)

\* What a claim about interleave speaks of: the ways a token list is made
\* of matches of rep and, in their order, one match of each fixed parser,
\* each way given as the bindings of its matches from left to right.
RECURSIVE MadeOf(_, _, _)
MadeOf(rep, fixed, tokens) ==
    LET xs == Run(rep, tokens)
        ys == IF fixed = <<>> THEN <<>> ELSE Run(Head(fixed), tokens) IN
    (IF fixed = <<>> /\ tokens = <<>> THEN {<<>>} ELSE {})
    \cup UNION {{<<xs[i].val>> \o b : b \in MadeOf(rep, fixed, xs[i].rest)} :
                    i \in DOMAIN xs}
    \cup UNION {{<<ys[i].val>> \o b : b \in MadeOf(rep, Tail(fixed), ys[i].rest)} :
                    i \in DOMAIN ys}

\* The same, where a fixed parser's match starts only at a token rep does
\* not match.
RECURSIVE MadeOfApart(_, _, _)
MadeOfApart(rep, fixed, tokens) ==
    LET xs == Run(rep, tokens)
        ys == IF fixed = <<>> \/ xs # <<>> THEN <<>> ELSE Run(Head(fixed), tokens) IN
    (IF fixed = <<>> /\ tokens = <<>> THEN {<<>>} ELSE {})
    \cup UNION {{<<xs[i].val>> \o b : b \in MadeOfApart(rep, fixed, xs[i].rest)} :
                    i \in DOMAIN xs}
    \cup UNION {{<<ys[i].val>> \o b : b \in MadeOfApart(rep, Tail(fixed), ys[i].rest)} :
                    i \in DOMAIN ys}

KeyOf(node) == IF node.op = "argument" THEN node.dest ELSE node.long

\* C18: interleave(rep, f1..fk) accepts every input made of the tokens of
\* f1..fk in that order with zero or more matches of rep before, between
\* and after them, and returns the bindings of all the matches in input
\* order; with k = 0 it behaves exactly as many(rep).
C18_InterleaveAccepts ==
    op = "interleave" =>
        /\ \A b \in MadeOf(p, ps, cs) : out = <<Res(Lst(b), <<>>)>>
        /\ ps = <<>> => out = Run(Many(p), cs)

\* C18 as amended: the same for the inputs in which no fixed parser's token
\* is one rep matches there; each fixed parser has then been applied exactly
\* once, in declaration order.
C18_InterleaveApart ==
    op = "interleave" =>
        /\ \A b \in MadeOfApart(p, ps, cs) :
                LET IsFixed(x) == \E i \in DOMAIN ps : x.items[1].s = KeyOf(ps[i])
                    fixedKeys == SelectSeq(b, IsFixed) IN
                /\ out = <<Res(Lst(b), <<>>)>>
                /\ [i \in DOMAIN fixedKeys |-> fixedKeys[i].items[1].s]
                        = [i \in DOMAIN ps |-> KeyOf(ps[i])]
        /\ ps = <<>> => out = Run(Many(p), cs)

\* Flags before and between two positional arguments.
C18_Witness ==
    /\ op = "interleave"
    /\ p = Or(FlagVerbose, OptionNum)
    /\ ps = <<ArgumentA, ArgumentB>>
    /\ cs = <<"--verbose", "7", "--verbose", "7">>
    /\ MadeOfApart(p, ps, cs) # {}
    /\ out = <<Res(Lst(<<Tup(Str("verbose"), PyBool(TRUE)), Tup(Str("a"), Str("7")),
                        Tup(Str("verbose"), PyBool(TRUE)), Tup(Str("b"), Str("7"))>>),
                   <<>>)>>

(***************************************************************************)
(* Nested output: the (key, value) bindings of a parse merged into a       *)
(* mapping of mappings, a key with the separator . being a path.           *)
(***************************************************************************)
\* A mapping: its items are (key, value) tuples in the order of insertion.
Dict(kvs) == [t |-> "dict", s |-> "", items |-> kvs]

\* key.split("."): the path of a key.
KeyPath(key) ==
    CASE key = "a.b" -> <<"a", "b">>
      [] key = "a.c" -> <<"a", "c">>
      [] OTHER -> <<key>>

\* The mapping holding one value at the end of a path.
RECURSIVE Nest(_, _)
Nest(path, v) ==
    IF Len(path) = 1 THEN Dict(<<Tup(Str(path[1]), v)>>)
    ELSE Dict(<<Tup(Str(path[1]), Nest(Tail(path), v))>>)

RECURSIVE Combine(_, _)
RECURSIVE Put(_, _)
RECURSIVE MergeDicts(_, _)

\* Two values met at the same key: two mappings merge; a leaf and a mapping
\* become the list of both in the order met, which a later value extends; of
\* two leaves the later one stays.
CombineOverwrite(old, new) == new
Combine(old, new) ==
    IF old.t = "dict" /\ new.t = "dict" THEN MergeDicts(old, new)
    ELSE IF old.t = "list" THEN Lst(Append(old.items, new))
    ELSE IF old.t = "dict" \/ new.t = "dict" THEN Lst(<<old, new>>)
    ELSE new

\* Insert one (key, value) item into a mapping.
Put(d, kv) ==
    IF \E i \in DOMAIN d.items : d.items[i].items[1] = kv.items[1]
    THEN LET i == CHOOSE i \in DOMAIN d.items : d.items[i].items[1] = kv.items[1] IN
         Dict([d.items EXCEPT ![i] =
                Tup(kv.items[1], Combine(d.items[i].items[2], kv.items[2]))])
    ELSE Dict(Append(d.items, kv))

\* Insert the items of e into d, in order.
MergeDicts(d, e) ==
    IF e.items = <<>> THEN d
    ELSE MergeDicts(Put(d, Head(e.items)), Dict(Tail(e.items)))

\* The structured result: the bindings inserted one after the other.
RECURSIVE NestedOutput(_, _)
NestedOutput(d, bindings) ==
    IF bindings = <<>> THEN d
    ELSE LET kv == Head(bindings) IN
         NestedOutput(MergeDicts(d, Nest(KeyPath(kv.items[1].s), kv.items[2])),
                      Tail(bindings))

\* flag("a") is written -a; flag("a.b") and flag("a.c") are written in full.
FlagA == Flag("a", "a")

FlagAB == Flag("a.b", "None")

FlagAC == Flag("a.c", "None")

NestedTokens == {"-a", "--a.b", "--a.c"}

NestedTokenLists == UNION {[1..n -> NestedTokens] : n \in 0..MaxLen}

NestedParserLists == Distinct({FlagA, FlagAB, FlagAC})

InitNested ==
    /\ p = Zero /\ q = Zero /\ r = Zero /\ f = "ret"
    /\ ps \in NestedParserLists
    /\ cs \in NestedTokenLists
    /\ op = "ninit"
    /\ out = <<>>
    /\ calls = 0
    /\ tree = NoTree
    /\ ra = ResultZero /\ rb = ResultZero /\ rc = ResultZero /\ rout = ResultZero

\* parse_args of nonpositional(*ps): the parse, and on success the bindings
\* of its value merged into the structured result.
ParseArgsNested ==
    /\ op = "ninit"
    /\ op' = "nested"
    /\ out' = LET xs == Run(nonpositional(ps), cs) IN
              IF Succeeds(xs)
              THEN <<Res(NestedOutput(Dict(<<>>), Leaves(xs[1].val)), xs[1].rest)>>
              ELSE xs
    /\ UNCHANGED <<operands, calls, rout>>

NextNested == ParseArgsNested

SpecNested == InitNested /\ [][NextNested]_vars

\* The number of leaf values a structured result holds.
RECURSIVE CountLeaves(_)
CountLeaves(v) ==
    IF v.t = "bool" THEN 1
    ELSE IF v.items = <<>> THEN 0
    ELSE CountLeaves(Head(v.items)) + CountLeaves([v EXCEPT !.items = Tail(@)])

\* C20: the nested-key merge loses no binding: a.b and a.c merge into the
\* one mapping {a: {b, c}}, and a scalar at a with a nested a.b gives the
\* list of both at key a, in the order they were met.
C20_NestedMergeKeepsAll ==
    LET T == PyBool(TRUE)
        At(key, v) == Dict(<<Tup(Str(key), v)>>) IN
    (op = "nested" /\ ps # <<>> /\ Succeeds(out)) =>
        /\ CountLeaves(out[1].val) = Len(ps)
        /\ cs = <<"--a.b", "--a.c">> =>
                out[1].val = At("a", Dict(<<Tup(Str("b"), T), Tup(Str("c"), T)>>))
        /\ cs = <<"-a", "--a.b">> => out[1].val = At("a", Lst(<<T, At("b", T)>>))
        /\ cs = <<"--a.b", "-a">> => out[1].val = At("a", Lst(<<At("b", T), T>>))

\* nonpositional(flag("a"), flag("a.b")) has parsed -a --a.b.
C20_Witness ==
    /\ op = "nested"
    /\ ps = <<FlagA, FlagAB>>
    /\ cs = <<"-a", "--a.b">>
    /\ Succeeds(out)
    /\ out[1].val = Dict(<<Tup(Str("a"),
            Lst(<<PyBool(TRUE), Dict(<<Tup(Str("b"), PyBool(TRUE))>>)>>))>>)

(***************************************************************************)
(* End to end: option("x", type=int) | argument("y").many().               *)
(***************************************************************************)
OptionX == Option("x", "x", "int")

ArgumentY == Argument("y")

EndToEndParser == Or(OptionX, Many(ArgumentY))

EndToEndTokens == {"-x", "1", "2", "3"}

EndToEndTokenLists == UNION {[1..n -> EndToEndTokens] : n \in 0..MaxLen}

InitEndToEnd ==
    /\ p = EndToEndParser
    /\ q = Zero /\ r = Zero /\ f = "ret"
    /\ cs \in EndToEndTokenLists
    /\ op = "init"
    /\ out = <<>>
    /\ calls = 0
    /\ tree = NoTree
    /\ ps = <<>>
    /\ ra = ResultZero /\ rb = ResultZero /\ rc = ResultZero /\ rout = ResultZero

SpecEndToEnd == InitEndToEnd /\ [][NextSurface]_vars

C24_NoException ==
    op = "parse_args" => ~IsRaised(out)

(***************************************************************************)
(* The dispatch tree: a hierarchy of handlers, each with a parser          *)
(* fragment; a parse selects the handler to invoke.                        *)
(***************************************************************************)
\* The invocation of a handler with the bindings as its arguments.
Call(handler, bindings) == [t |-> "call", s |-> handler, items |-> bindings]

\* The spelling a failure names: -a for option("a").
Spelling(fragment) == "-" \o fragment.short

\* The failure of a flag or option fragment: missing when the input is
\* exhausted, unexpected token when the next token is another one.
ErrorOf(fragment, tokens) ==
    IF tokens = <<>> THEN MissingError(Spelling(fragment))
    ELSE IF Head(tokens) \notin FlagPredicate(fragment.long, fragment.short)
    THEN UnequalError(Head(tokens), Spelling(fragment))
    ELSE IF Tail(tokens) = <<>> THEN MissingError(Spelling(fragment))
    ELSE Exc("ArgumentError", Spelling(fragment))

\* The alternation of outcomes, from the left; zero when there is none.
RECURSIVE MergeOutcomes(_)
MergeOutcomes(rs) ==
    IF rs = <<>> THEN ResultZero
    ELSE IF Len(rs) = 1 THEN rs[1]
    ELSE MonoidOr(MergeOutcomes(SubSeq(rs, 1, Len(rs) - 1)), rs[Len(rs)])

\* The effective parser of a node run on tokens, acc being the bindings of
\* the path down to it: its fragment, then the alternation of its children
\* with, last, the node's own handler when it has one.
RECURSIVE Dispatch(_, _, _)
Dispatch(node, tokens, acc) ==
    LET xs == Run(node.fragment, tokens) IN
    IF ~Succeeds(xs) THEN Result(ErrorOf(node.fragment, tokens))
    ELSE LET bs == acc \o Leaves(xs[1].val)
             kids == [i \in DOMAIN node.children |->
                        Dispatch(node.children[i], xs[1].rest, bs)]
             own == IF node.handler # "" THEN <<Result(Call(node.handler, bs))>>
                    ELSE <<>> IN
         MergeOutcomes(kids \o own)

OptionA == Option("a", "a", "int")

FlagB == Flag("b", "b")

OptionC == Option("c", "c", "None")

G1 == Node("g1", FlagB, <<>>)

G2 == Node("g2", OptionC, <<>>)

\* CommandTree() with the one command f1 (with or without a handler of its
\* own) and f1's children.
Trees ==
    {Node("", Empty, <<Node(h, OptionA, kids)>>) :
        h \in {"f1", ""}, kids \in {<<>>, <<G1>>, <<G1, G2>>, <<G2, G1>>}}

DispatchTokens == {"-a", "1", "-b", "-c", "foo"}

DispatchTokenLists == UNION {[1..n -> DispatchTokens] : n \in 0..(MaxLen + 1)}

InitDispatch ==
    /\ p = Zero /\ q = Zero /\ r = Zero /\ f = "ret"
    /\ ps = <<>>
    /\ tree \in Trees
    /\ cs \in DispatchTokenLists
    /\ op = "dinit"
    /\ out = <<>>
    /\ calls = 0
    /\ ra = ResultZero /\ rb = ResultZero /\ rc = ResultZero /\ rout = ResultZero

\* tree(*args): the parse and, on success, the invocation of its handler.
DispatchTree ==
    /\ op = "dinit"
    /\ op' = "dispatch"
    /\ rout' = Dispatch(tree, cs, <<>>)
    /\ calls' = IF IsException(Dispatch(tree, cs, <<>>).get) THEN 0 ELSE 1
    /\ UNCHANGED <<operands, out>>

NextDispatch == DispatchTree

SpecDispatch == InitDispatch /\ [][NextDispatch]_vars

\* The keys of the fragments on the path from the root down to the node of
\* the named handler.
PathKeys(handler) ==
    IF handler = "f1" THEN <<"a">>
    ELSE IF handler = "g1" THEN <<"a", "b">>
    ELSE <<"a", "c">>

F1 == tree.children[1]

HasChild(node) == \E i \in DOMAIN F1.children : F1.children[i] = node

\* C22: a successful dispatch invokes exactly one handler, with the bindings
\* of the fragments on the path from the root to its node; -a 1 -b invokes
\* the -b child with a = 1 and b = true, -a 1 -c foo invokes the -c child.
C22_DispatchSelection ==
    op = "dispatch" =>
        /\ IsSuccess(rout) =>
            /\ calls = 1
            /\ rout.get.t = "call"
            /\ rout.get.s \in {"f1", "g1", "g2"}
            /\ [i \in DOMAIN rout.get.items |-> rout.get.items[i].items[1].s]
                 = PathKeys(rout.get.s)
        /\ ~IsSuccess(rout) => calls = 0
        /\ (cs = <<"-a", "1", "-b">> /\ HasChild(G1)) =>
            rout = Result(Call("g1", <<Tup(Str("a"), PyInt(1)),
                                       Tup(Str("b"), PyBool(TRUE))>>))
        /\ (cs = <<"-a", "1", "-c", "foo">> /\ HasChild(G2)) =>
            rout = Result(Call("g2", <<Tup(Str("a"), PyInt(1)),
                                       Tup(Str("c"), Str("foo"))>>))

C22_Witness ==
    /\ op = "dispatch"
    /\ cs = <<"-a", "1", "-c", "foo">>
    /\ F1.handler = "f1"
    /\ F1.children = <<G1, G2>>
    /\ rout.get.s = "g2"

\* C23: an input that satisfies the parent's fragment and none of its
\* children invokes the parent's handler with the parent's bindings when it
\* has one, and otherwise fails with the error of the first declared child,
\* its missing-argument error when the input ends after the parent's part.
C23_DispatchFallback ==
    (/\ op = "dispatch"
     /\ Len(cs) >= 2 /\ SubSeq(cs, 1, 2) = <<"-a", "1">>
     /\ \A i \in DOMAIN F1.children :
            ~Succeeds(Run(F1.children[i].fragment, SubSeq(cs, 3, Len(cs))))) =>
        /\ F1.handler # "" =>
            rout = Result(Call("f1", <<Tup(Str("a"), PyInt(1))>>))
        /\ (F1.handler = "" /\ F1.children # <<>>) =>
            /\ rout = Result(ErrorOf(F1.children[1].fragment,
                                     SubSeq(cs, 3, Len(cs))))
            /\ Len(cs) = 2 =>
                rout = Result(MissingError(Spelling(F1.children[1].fragment)))

C23_Witness ==
    /\ op = "dispatch"
    /\ cs = <<"-a", "1">>
    /\ F1.handler = ""
    /\ F1.children = <<G2, G1>>
    /\ rout = Result(MissingError("-c"))

\* C25: single outcome.  A parser returns at most one (value, remainder)
\* result on every input, whatever combinators it is built from: p >> q,
\* p >> q >> r and bind(p, f) never return two results.
C25_SingleOutcome ==
    op \in {"p>>q", "p>>ret", "p>>q>>r", "bind"} => Len(out) <= 1

(***************************************************************************)
(* nonpositional over flags that carry a default.                          *)
(***************************************************************************)
FlagQuiet == Flag("quiet", "q")

\* Flag("verbose") | Parser.key_values(verbose=False): the flag, or its
\* default binding without consuming a token.
WithDefault(flag) == Or(flag, Ret(KV(flag.long, PyBool(FALSE))))

DefaultedParserLists ==
    Distinct({WithDefault(FlagVerbose), WithDefault(FlagDebug), WithDefault(FlagQuiet)})

DefaultsTokens == {"--verbose", "--debug", "--quiet"}

DefaultsTokenLists == UNION {[1..n -> DefaultsTokens] : n \in 0..MaxLen}

InitDefaults ==
    /\ p = Zero /\ q = Zero /\ r = Zero /\ f = "ret"
    /\ ps \in DefaultedParserLists
    /\ cs \in DefaultsTokenLists
    /\ op = "ninit"
    /\ out = <<>>
    /\ calls = 0
    /\ tree = NoTree
    /\ ra = ResultZero /\ rb = ResultZero /\ rc = ResultZero /\ rout = ResultZero

NextDefaults == NonpositionalPs

SpecDefaults == InitDefaults /\ [][NextDefaults]_vars

\* The long spelling of the flag of a defaulted parser.
LongOf(node) == "--" \o node.l.long

Supplied(node) == \E i \in DOMAIN cs : cs[i] = LongOf(node)

OneTokenParsers == {FlagVerbose, ArgumentA}

Accepts(a, token) == Succeeds(Run(a, <<token>>))

\* The suffix of tokens that starts at the first token a rejects.
RECURSIVE RejectedSuffix(_, _)
RejectedSuffix(a, tokens) ==
    IF tokens = <<>> \/ ~Accepts(a, Head(tokens)) THEN tokens
    ELSE RejectedSuffix(a, Tail(tokens))

\* C27: repetition is greedy and is not backtracked.  For a one-token p,
\* many(p) >> p fails on every input made only of tokens p accepts, and the
\* parser that follows many(p) is applied to exactly the suffix that starts
\* at the first token p rejects.
C27_ManyGreedy ==
    /\ (/\ op = "many>>p"
        /\ p \in OneTokenParsers
        /\ \A i \in DOMAIN cs : Accepts(p, cs[i])) => Fails(out)
    /\ (op = "many>>item" /\ p \in OneTokenParsers) =>
        /\ RejectedSuffix(p, cs) = <<>> => Fails(out)
        /\ RejectedSuffix(p, cs) # <<>> =>
            /\ Len(out) = 1
            /\ ~IsRaised(out)
            /\ out[1].val.items[1] = Run(Many(p), cs)[1].val
            /\ Len(out[1].val.items[1].items)
                 = Len(cs) - Len(RejectedSuffix(p, cs))
            /\ out[1].val.items[2] = Str(Head(RejectedSuffix(p, cs)))
            /\ out[1].rest = Tail(RejectedSuffix(p, cs))

C27_Witness ==
    /\ op = "many>>p"
    /\ p = FlagVerbose
    /\ cs = <<"--verbose", "--verbose">>
    /\ Fails(out)

(***************************************************************************)
(* Repetition of parsers that can succeed without consuming a token.       *)
(***************************************************************************)
\* ret of a binding, and a flag with a default binding.
NullableParsers ==
    { Ret(Tup(Str("k"), PyBool(TRUE))),
      Or(FlagVerbose, Ret(Tup(Str("verbose"), PyBool(FALSE)))) }

InitRepeat ==
    /\ p \in RepeatableParsers \cup NullableParsers
    /\ q = Zero /\ r = Zero /\ f = "ret"
    /\ cs \in TokenLists
    /\ op = "init"
    /\ out = <<>>
    /\ calls = 0
    /\ tree = NoTree
    /\ ps = <<>>
    /\ ra = ResultZero /\ rb = ResultZero /\ rc = ResultZero /\ rout = ResultZero

SpecRepeat == InitRepeat /\ [][NextMany]_vars

\* C28: every parse terminates with an outcome: many(p) and many1(p) return
\* a result list on every token list, also when p can succeed without
\* consuming a token, and do not end in an exceeded recursion depth.
C28_Terminates ==
    op \in {"many", "many1"} => ~IsRaised(out)

====
